---------------------------- MODULE Spec2Model ----------------------------
(***************************************************************************)
(* amoCRM -> Telegram webhook relay (src/app.py).                          *)
(*                                                                         *)
(* The module models                                                       *)
(*   - DataManager: the per-scope JSON status files (load / save /         *)
(*     update_lead_status / get_status_name),                              *)
(*   - AmoCRMHandler.format_lead_message and the process_* dispatch loops, *)
(*   - amocrm_webhook, one coroutine per delivery, scheduled by the event  *)
(*     loop of the worker process that received it,                        *)
(*   - TelegramMessage.send_message as the only await inside the loops.    *)
(*                                                                         *)
(* Strings that the source writes in Russian or as emoji are written here  *)
(* in ASCII: "Status " for the fallback prefix, MEMO / CYCLE / PARTY /     *)
(* INFO for the lead emoji.                                                 *)
(***************************************************************************)
EXTENDS Integers, Sequences, FiniteSets, TLC

(***************************************************************************)
(* Bounds of the model.                                                    *)
(***************************************************************************)
\* number of webhook deliveries (coroutines of amocrm_webhook) in a run
NumDeliveries == 2
\* number of store I/O failures the file system may inject in a run
MaxIOFaults == 1

Deliveries == 1..NumDeliveries
\* worker processes serving the app, each with one event loop
Procs == {"w1", "w2"}
\* scope ids that arrive in the URL path
Scopes == {"42", "43"}

(***************************************************************************)
(* JSON values of the payload.                                             *)
(*   an id is absent/null (NoId), a JSON number or a JSON string;          *)
(*   a name is absent/null (NoName) or a JSON string.                      *)
(***************************************************************************)
NoId == [t |-> "none", n |-> 0, s |-> ""]
IntId(n) == [t |-> "int", n |-> n, s |-> ""]
StrId(s) == [t |-> "str", n |-> 0, s |-> s]

NoName == [has |-> FALSE, v |-> ""]
Name(v) == [has |-> TRUE, v |-> v]

\* Python truthiness of lead.get("status_id") / status.get("id")
Truthy(id) == \/ id.t = "int" /\ id.n # 0
              \/ id.t = "str" /\ id.s # ""

\* Python truthiness of status.get("name") / of status_name
TruthyName(nm) == nm.has /\ nm.v # ""

Digit == <<"0", "1", "2", "3", "4", "5", "6", "7", "8", "9">>

RECURSIVE Decimal(_)
Decimal(n) == IF n < 10 THEN Digit[n + 1]
              ELSE Decimal(n \div 10) \o Digit[(n % 10) + 1]

\* a key that keeps numbers apart from strings of the same digits
Str_typed(id) == IF id.t = "int" THEN "#" \o Decimal(id.n)
                 ELSE IF id.t = "str" THEN id.s
                 ELSE "None"

\* str(status_id)
Str(id) == IF id.t = "int" THEN Decimal(id.n)
           ELSE IF id.t = "str" THEN id.s
           ELSE "None"

(***************************************************************************)
(* DataManager: the status files.                                          *)
(***************************************************************************)
DATA_DIR == "data"

\* one file for all scopes
shared_file_path(scope_id) == DATA_DIR \o "/lead_statuses.json"

\* DataManager.get_status_file_path
get_status_file_path(scope_id) ==
    DATA_DIR \o "/lead_statuses_" \o scope_id \o ".json"

Paths == {get_status_file_path(s) : s \in Scopes}

\* a file is missing, holds a JSON document ("ok", text: the members of the
\* object) or holds bytes that are no JSON document ("corrupt"); len is its
\* size in bytes
NoFile == [state |-> "missing", text |-> <<>>, len |-> 0]

EmptyMap == [k \in {} |-> [name |-> "", first_seen |-> 0]]

\* json.dump of a dict: the members of the object, one after the other
RECURSIVE JsonDump(_)
JsonDump(m) ==
    IF DOMAIN m = {} THEN <<>>
    ELSE LET k == CHOOSE x \in DOMAIN m : TRUE
             rest == [x \in DOMAIN m \ {k} |-> m[x]]
         IN  <<[key |-> k, value |-> m[k]]>> \o JsonDump(rest)

\* json.load of an object: a later member replaces an earlier one of the same key
RECURSIVE JsonLoad(_)
JsonLoad(text) ==
    IF text = <<>> THEN EmptyMap
    ELSE LET n == Len(text)
             m == JsonLoad(SubSeq(text, 1, n - 1))
         IN  [k \in DOMAIN m \cup {text[n].key} |->
                 IF k = text[n].key THEN text[n].value ELSE m[k]]

\* a load whose read is not guarded: what the file held is used even when
\* the read did not succeed
load_unguarded(fs, scope_id, readFails) ==
    LET f == fs[get_status_file_path(scope_id)]
    IN  IF f.state = "missing" THEN EmptyMap ELSE JsonLoad(f.text)

\* DataManager.load_lead_statuses; readFails: open() or read() raised
load_lead_statuses(fs, scope_id, readFails) ==
    LET f == fs[get_status_file_path(scope_id)]
    IN  IF f.state = "missing" THEN EmptyMap
        ELSE IF f.state = "corrupt" \/ readFails THEN EmptyMap
        ELSE JsonLoad(f.text)

\* the number of bytes of json.dump(statuses, ensure_ascii=False, indent=2):
\* "{}" for the empty dict; else 4 bytes of braces and line breaks, 74 bytes
\* of punctuation, field names and the first_seen timestamp per member, 50
\* more for a last_updated line, 2 for each separator between members
RECURSIVE JsonLen(_)
JsonLen(text) ==
    IF text = <<>> THEN 2
    ELSE LET v == Head(text).value
         IN  Len(Head(text).key) + Len(v.name) + 74
             + (IF "last_updated" \in DOMAIN v THEN 50 ELSE 0)
             + 2 + JsonLen(Tail(text))

\* open(file_path, "w"): the file exists and is empty
truncate(f) == [state |-> "corrupt", text |-> <<>>, len |-> 0]

\* a save that writes the first member of the dict only
write_first_member(f, statuses) ==
    LET text == SubSeq(JsonDump(statuses), 1, 1)
    IN  IF JsonLen(text) >= f.len
        THEN [state |-> "ok", text |-> text, len |-> JsonLen(text)]
        ELSE [state |-> "corrupt", text |-> <<>>, len |-> f.len]

\* json.dump into the opened file and close: the document is written from
\* offset 0; bytes that another writer put behind its end stay in the file
write_document(f, statuses) ==
    LET text == JsonDump(statuses)
    IN  IF JsonLen(text) >= f.len
        THEN [state |-> "ok", text |-> text, len |-> JsonLen(text)]
        ELSE [state |-> "corrupt", text |-> <<>>, len |-> f.len]

\* a write that raises before the document is complete
write_partly(f) == [state |-> "corrupt", text |-> <<>>, len |-> f.len]

\* a save that adds the dict to what the file holds instead of replacing it
save_merging(fs, scope_id, statuses, outcome) ==
    LET p == get_status_file_path(scope_id)
        old == load_lead_statuses(fs, scope_id, FALSE)
        merged == [k \in DOMAIN old \cup DOMAIN statuses |->
                      IF k \in DOMAIN statuses THEN statuses[k] ELSE old[k]]
    IN  IF outcome = "open_fails" THEN fs
        ELSE IF outcome = "write_fails"
             THEN [fs EXCEPT ![p] = write_partly(truncate(@))]
             ELSE [fs EXCEPT ![p] = write_document(truncate(@), merged)]

\* DataManager.save_lead_statuses; outcome: "ok", "open_fails" (open() raised,
\* the file is untouched) or "write_fails" (open() truncated the file and
\* json.dump or the close raised)
save_lead_statuses(fs, scope_id, statuses, outcome) ==
    LET p == get_status_file_path(scope_id)
    IN  IF outcome = "open_fails" THEN fs
        ELSE IF outcome = "write_fails"
             THEN [fs EXCEPT ![p] = write_partly(truncate(@))]
             ELSE [fs EXCEPT ![p] = write_document(truncate(@), statuses)]

\* an update that builds the record anew whether or not the id is known
modify_replacing(statuses, status_id, status_name, now) ==
    [k \in DOMAIN statuses \cup {Str(status_id)} |->
        IF k = Str(status_id)
        THEN [name |-> status_name, first_seen |-> now]
        ELSE statuses[k]]

\* an update that stamps first_seen of a known id anew
modify_refreshing(statuses, status_id, status_name, now) ==
    [k \in DOMAIN statuses \cup {Str(status_id)} |->
        IF k # Str(status_id) THEN statuses[k]
        ELSE IF k \in DOMAIN statuses
             THEN [name |-> status_name, first_seen |-> now, last_updated |-> now]
             ELSE [name |-> status_name, first_seen |-> now]]

\* DataManager.update_lead_status, lines 64-73: the change of the loaded dict
modify_statuses(statuses, status_id, status_name, now) ==
    LET status_id_str == Str(status_id)
    IN  IF status_id_str \notin DOMAIN statuses
        THEN [k \in DOMAIN statuses \cup {status_id_str} |->
                 IF k = status_id_str
                 THEN [name |-> status_name, first_seen |-> now]
                 ELSE statuses[k]]
        ELSE [statuses EXCEPT ![status_id_str] =
                 [name |-> status_name,
                  first_seen |-> statuses[status_id_str].first_seen,
                  last_updated |-> now]]

\* the f-string of get_status_name's default
Fallback(status_id) == "Status " \o Str(status_id)

\* DataManager.get_status_name, lines 82-83, on the loaded dict
\* a lookup that never consults the mapping
status_name_uncached(statuses, status_id) == Fallback(status_id)

status_name_of(statuses, status_id) ==
    LET status_id_str == Str(status_id)
    IN  IF status_id_str \in DOMAIN statuses
        THEN statuses[status_id_str].name
        ELSE Fallback(status_id)


(***************************************************************************)
(* Payload records.  A section that is absent from the payload and a       *)
(* section that is an empty list are the same to the handler (no           *)
(* iteration), so an absent section is written <<>>.                       *)
(***************************************************************************)
Lead(add, update, status_id, status_name) ==
    [add |-> add, update |-> update,
     status_id |-> status_id, status_name |-> status_name]
Task(add, update, is_completed) ==
    [add |-> add, update |-> update, is_completed |-> is_completed]
Contact(add, update) == [add |-> add, update |-> update]
Status(id, name) == [id |-> id, name |-> name]
Pipeline(has_statuses, statuses) ==
    [has_statuses |-> has_statuses, statuses |-> statuses]

Payload(leads, tasks, contacts, lead_statuses, pipelines) ==
    [leads |-> leads, tasks |-> tasks, contacts |-> contacts,
     lead_statuses |-> lead_statuses, pipelines |-> pipelines]

\* the payloads the deliveries draw from
Payloads ==
    { \* a won deal with its status name
      Payload(<<Lead(FALSE, FALSE, IntId(142), Name("A"))>>, <<>>, <<>>, <<>>, <<>>),
      \* a status change with a name, then one by string id without a name
      Payload(<<Lead(FALSE, FALSE, IntId(7), Name("B")),
                Lead(FALSE, TRUE, StrId("7"), NoName)>>, <<>>, <<>>, <<>>, <<>>),
      \* records of the three message sections, one of them silent
      Payload(<<Lead(TRUE, FALSE, NoId, NoName),
                Lead(FALSE, FALSE, NoId, NoName)>>,
              <<Task(FALSE, FALSE, TRUE), Task(FALSE, TRUE, TRUE)>>,
              <<Contact(FALSE, TRUE)>>, <<>>, <<>>),
      \* a lead without a name whose status is defined by the same payload
      Payload(<<Lead(FALSE, FALSE, StrId("143"), NoName)>>, <<>>, <<>>,
              <<Status(IntId(143), Name("A"))>>, <<>>),
      \* status definitions: twice the same id, one without id
      Payload(<<>>, <<>>, <<>>,
              <<Status(IntId(7), Name("A")), Status(StrId("7"), Name("B")),
                Status(NoId, Name("A"))>>, <<>>),
      \* pipelines, one without statuses, one with a nameless status
      Payload(<<>>, <<>>, <<>>, <<>>,
              <<Pipeline(FALSE, <<>>),
                Pipeline(TRUE, <<Status(StrId("7"), Name("A")),
                                 Status(IntId(8), NoName)>>)>>),
      \* an explicit but empty status name
      Payload(<<Lead(FALSE, FALSE, IntId(7), Name(""))>>, <<>>, <<>>, <<>>, <<>>),
      \* a new deal that is already in a successful status; tasks and contacts
      Payload(<<Lead(TRUE, FALSE, IntId(142), Name("B"))>>,
              <<Task(TRUE, FALSE, TRUE), Task(FALSE, TRUE, FALSE),
                Task(FALSE, FALSE, FALSE)>>,
              <<Contact(TRUE, TRUE), Contact(FALSE, FALSE)>>, <<>>, <<>>),
      \* status id 0, with and without the update marker
      Payload(<<Lead(FALSE, FALSE, IntId(0), Name("A")),
                Lead(FALSE, TRUE, IntId(0), Name("A"))>>, <<>>, <<>>, <<>>, <<>>),
      \* a message followed by a status definition
      Payload(<<Lead(FALSE, TRUE, NoId, NoName)>>, <<>>, <<>>,
              <<Status(IntId(8), Name("A"))>>, <<>>) }

\* an element of a section's list that is not a JSON object (a number, null):
\* the first test of a key on it raises
NotAnObject ==
    [object |-> FALSE, add |-> FALSE, update |-> FALSE, is_completed |-> FALSE,
     status_id |-> NoId, status_name |-> NoName, id |-> NoId, name |-> NoName]
IsObject(record) == "object" \notin DOMAIN record

\* payloads of an unexpected shape
MalformedPayloads ==
    { \* a lead, then a non-object among the leads, and a status definition
      Payload(<<Lead(FALSE, TRUE, NoId, NoName), NotAnObject>>, <<>>, <<>>,
              <<Status(IntId(8), Name("A"))>>, <<>>),
      \* a new deal, then a non-object among the tasks, and a contact
      Payload(<<Lead(TRUE, FALSE, IntId(7), Name("A"))>>, <<NotAnObject>>,
              <<Contact(TRUE, FALSE)>>, <<>>, <<>>),
      \* status definitions with a non-object between them
      Payload(<<>>, <<>>, <<>>,
              <<Status(IntId(7), Name("A")), NotAnObject,
                Status(IntId(8), Name("A"))>>, <<>>) }

\* the sections in the order amocrm_webhook tests them
Section(data, s) ==
    CASE s = 1 -> data.leads
      [] s = 2 -> data.tasks
      [] s = 3 -> data.contacts
      [] s = 4 -> data.lead_statuses
      [] s = 5 -> data.pipelines
      [] OTHER -> <<>>

NumSections == 5

(***************************************************************************)
(* The position of a handler in its payload: section s, record i of the    *)
(* section, and for pipelines entry j of the record's statuses.  Norm      *)
(* moves a position that is past the end of a list to the next record or   *)
(* section, as the for loops and the "if ... in data" tests do; section    *)
(* NumSections + 1 is the return statement.                                *)
(***************************************************************************)
RECURSIVE Norm(_, _, _, _)
Norm(data, s, i, j) ==
    IF s > NumSections THEN <<NumSections + 1, 1, 1>>
    ELSE LET recs == Section(data, s)
         IN  IF i > Len(recs) THEN Norm(data, s + 1, 1, 1)
             ELSE IF s = 5 /\ (~recs[i].has_statuses \/ j > Len(recs[i].statuses))
                  THEN Norm(data, s, i + 1, 1)
                  ELSE <<s, i, j>>

(***************************************************************************)
(* Event kinds and message heads.                                          *)
(***************************************************************************)
successful_status_ids == {"142", "143"}

\* the status test placed before the "add" test
lead_event_type_status_first(lead) ==
    IF Truthy(lead.status_id)
    THEN IF Str(lead.status_id) \in successful_status_ids
         THEN "success" ELSE "update"
    ELSE IF lead.add THEN "new"
    ELSE IF lead.update THEN "update" ELSE "none"

\* process_leads: the if / elif chain
lead_event_type(lead) ==
    IF lead.add THEN "new"
    ELSE IF Truthy(lead.status_id)
         THEN IF Str(lead.status_id) \in successful_status_ids
              THEN "success" ELSE "update"
         ELSE IF lead.update THEN "update" ELSE "none"

\* process_tasks: the if / elif chain
\* the "update" marker tested before the completion flag
task_event_type_update_first(task) ==
    IF task.add THEN "new"
    ELSE IF task.update THEN "update"
    ELSE IF task.is_completed THEN "completed" ELSE "none"

task_event_type(task) ==
    IF task.add THEN "new"
    ELSE IF task.is_completed THEN "completed"
    ELSE IF task.update THEN "update" ELSE "none"

\* process_contacts: the if / elif chain
contact_event_type(contact) ==
    IF contact.add THEN "new"
    ELSE IF contact.update THEN "update" ELSE "none"

\* format_lead_message: emoji by event type
lead_emoji(event_type) ==
    CASE event_type = "new" -> "MEMO"
      [] event_type = "update" -> "CYCLE"
      [] event_type = "success" -> "PARTY"
      [] OTHER -> "INFO"

\* format_task_message: emoji by event type
task_emoji(event_type) ==
    CASE event_type = "new" -> "ALARM"
      [] event_type = "completed" -> "CHECK"
      [] OTHER -> "CLIPBOARD"

\* format_contact_message: emoji by event type
contact_emoji(event_type) == "BUST"

\* a message under construction or handed to the sink
Message(s, i, emoji, has_status, status) ==
    [sec |-> s, idx |-> i, emoji |-> emoji,
     has_status |-> has_status, status |-> status]

NoMessage == Message(0, 0, "", FALSE, "")

(***************************************************************************)
(* State.                                                                  *)
(***************************************************************************)
VARIABLES
    files,      \* path -> file: the data directory
    clock,      \* the value the next datetime.now() returns
    faults,     \* store I/O failures injected so far
    workers,    \* the worker processes that serve the app
    loop,       \* worker process -> the delivery its event loop is running, 0 if none
    pc,         \* delivery -> where its coroutine stands
    scope,      \* delivery -> scope_id of the URL
    proc,       \* delivery -> the worker process that serves it
    data,       \* delivery -> the payload (request.json())
    pos,        \* delivery -> <<section, record, entry>> in the payload
    statuses,   \* delivery -> the dict of the running / last update_lead_status
    message,    \* delivery -> the message being formatted
    sent,       \* delivery -> the messages handed to send_message, in order
    acked,      \* delivery -> the number of send_message calls that returned
    response,   \* delivery -> "none", "success" or "error500"
    call,       \* the last call of the DataManager interface made directly
    everStored  \* history: path -> (key -> first_seen) of every record a completed
                \* save has put into the file

vars == <<files, clock, faults, workers, loop, pc, scope, proc, data, pos, statuses,
          message, sent, acked, response, call, everStored>>

storeVars == <<files, clock, faults, everStored>>
handlerVars == <<workers, loop, pc, scope, proc, data, pos, statuses, message, sent,
                 acked, response>>

NoCall == [op |-> "none", scope_id |-> "", status_id |-> NoId, name |-> "",
           prev_op |-> "none", prev_id |-> NoId,
           before |-> [p \in Paths |-> NoFile], result |-> EmptyMap, text |-> ""]

\* all of the state but the set of worker processes
InitRest ==
    /\ files = [p \in Paths |-> NoFile]
    /\ clock = 1
    /\ faults = 0
    /\ loop = [w \in Procs |-> 0]
    /\ pc = [h \in Deliveries |-> "idle"]
    /\ scope = [h \in Deliveries |-> "42"]
    /\ proc = [h \in Deliveries |-> "w1"]
    /\ data = [h \in Deliveries |-> Payload(<<>>, <<>>, <<>>, <<>>, <<>>)]
    /\ pos = [h \in Deliveries |-> <<1, 1, 1>>]
    /\ statuses = [h \in Deliveries |-> EmptyMap]
    /\ message = [h \in Deliveries |-> NoMessage]
    /\ sent = [h \in Deliveries |-> <<>>]
    /\ acked = [h \in Deliveries |-> 0]
    /\ response = [h \in Deliveries |-> "none"]
    /\ call = NoCall
    /\ everStored = [p \in Paths |-> [k \in {} |-> 0]]

\* the app served by several worker processes
Init == workers = Procs /\ InitRest

\* the app served by one process
InitOneWorker == workers = {"w1"} /\ InitRest

(***************************************************************************)
(* Scheduling.  A coroutine runs on the event loop of its worker process   *)
(* and gives the loop up only at an await or when it returns; coroutines   *)
(* of different worker processes run in parallel.                          *)
(***************************************************************************)
\* handlers that may be preempted anywhere, as threads are
CanRun_preemptive(h) == TRUE
CanRun(h) == loop[proc[h]] \in {0, h}
Hold(h) == loop' = [loop EXCEPT ![proc[h]] = h]
Yield(h) == loop' = [loop EXCEPT ![proc[h]] = 0]

\* the record the delivery stands at
Rec(h) == Section(data[h], pos[h][1])[pos[h][2]]
\* the status entry the delivery stands at (lead_statuses or pipelines)
Entry(h) == IF pos[h][1] = 5 THEN Rec(h).statuses[pos[h][3]] ELSE Rec(h)
\* the position after the current record / entry
After(h) ==
    IF pos[h][1] = 5 THEN Norm(data[h], 5, pos[h][2], pos[h][3] + 1)
    ELSE Norm(data[h], pos[h][1], pos[h][2] + 1, 1)

\* the arguments of the update_lead_status call the delivery is in
UpdateId(h) == IF pos[h][1] = 1 THEN Rec(h).status_id ELSE Entry(h).id
UpdateName(h) == IF pos[h][1] = 1 THEN Rec(h).status_name.v ELSE Entry(h).name.v

(***************************************************************************)
(* amocrm_webhook                                                          *)
(***************************************************************************)
\* a delivery arrives: the route is called with scope_id and the body is read
Dispatch(h) ==
    /\ pc[h] = "idle"
    /\ \E s \in Scopes, w \in workers, d \in Payloads :
          /\ scope' = [scope EXCEPT ![h] = s]
          /\ proc' = [proc EXCEPT ![h] = w]
          /\ data' = [data EXCEPT ![h] = d]
          /\ pos' = [pos EXCEPT ![h] = Norm(d, 1, 1, 1)]
    /\ pc' = [pc EXCEPT ![h] = "run"]
    /\ UNCHANGED <<storeVars, workers, loop, statuses, message, sent, acked, response,
                   call>>

\* a lead with a status id written to the store whether or not it has a name
ProcessLead_always_update(h) ==
    /\ pc[h] = "run" /\ pos[h][1] = 1 /\ CanRun(h)
    /\ IsObject(Rec(h))
    /\ LET lead == Rec(h)
           et == lead_event_type(lead)
       IN  IF et = "none"
           THEN /\ pos' = [pos EXCEPT ![h] = After(h)]
                /\ UNCHANGED <<pc, message>>
           ELSE /\ message' = [message EXCEPT ![h] =
                                  Message(1, pos[h][2], lead_emoji(et), FALSE, "")]
                /\ pc' = [pc EXCEPT ![h] =
                             IF Truthy(lead.status_id) THEN "load" ELSE "send"]
                /\ UNCHANGED pos
    /\ Hold(h)
    /\ UNCHANGED <<storeVars, workers, scope, proc, data, statuses, sent, acked, response, call>>

\* process_leads: one iteration up to its first I/O
ProcessLead(h) ==
    /\ pc[h] = "run" /\ pos[h][1] = 1 /\ CanRun(h)
    /\ IsObject(Rec(h))
    /\ LET lead == Rec(h)
           et == lead_event_type(lead)
       IN  IF et = "none"
           THEN /\ pos' = [pos EXCEPT ![h] = After(h)]
                /\ UNCHANGED <<pc, message>>
           ELSE /\ message' = [message EXCEPT ![h] =
                                  Message(1, pos[h][2], lead_emoji(et), FALSE, "")]
                /\ pc' = [pc EXCEPT ![h] =
                             IF Truthy(lead.status_id)
                             THEN IF lead.status_name.has THEN "load" ELSE "getname"
                             ELSE "send"]
                /\ UNCHANGED pos
    /\ Hold(h)
    /\ UNCHANGED <<storeVars, workers, scope, proc, data, statuses, sent, acked, response, call>>

\* process_tasks: one iteration up to the send
ProcessTask(h) ==
    /\ pc[h] = "run" /\ pos[h][1] = 2 /\ CanRun(h)
    /\ IsObject(Rec(h))
    /\ LET et == task_event_type(Rec(h))
       IN  IF et = "none"
           THEN /\ pos' = [pos EXCEPT ![h] = After(h)]
                /\ UNCHANGED <<pc, message>>
           ELSE /\ message' = [message EXCEPT ![h] =
                                  Message(2, pos[h][2], task_emoji(et), FALSE, "")]
                /\ pc' = [pc EXCEPT ![h] = "send"]
                /\ UNCHANGED pos
    /\ Hold(h)
    /\ UNCHANGED <<storeVars, workers, scope, proc, data, statuses, sent, acked, response, call>>

\* process_contacts: one iteration up to the send
ProcessContact(h) ==
    /\ pc[h] = "run" /\ pos[h][1] = 3 /\ CanRun(h)
    /\ IsObject(Rec(h))
    /\ LET et == contact_event_type(Rec(h))
       IN  IF et = "none"
           THEN /\ pos' = [pos EXCEPT ![h] = After(h)]
                /\ UNCHANGED <<pc, message>>
           ELSE /\ message' = [message EXCEPT ![h] =
                                  Message(3, pos[h][2], contact_emoji(et), FALSE, "")]
                /\ pc' = [pc EXCEPT ![h] = "send"]
                /\ UNCHANGED pos
    /\ Hold(h)
    /\ UNCHANGED <<storeVars, workers, scope, proc, data, statuses, sent, acked, response, call>>

\* the test of an entry asking for the id only
ProcessStatus_id_only(h) ==
    /\ pc[h] = "run" /\ pos[h][1] \in {4, 5} /\ CanRun(h)
    /\ IsObject(Entry(h))
    /\ IF Truthy(Entry(h).id)
       THEN /\ pc' = [pc EXCEPT ![h] = "load"]
            /\ UNCHANGED pos
       ELSE /\ pos' = [pos EXCEPT ![h] = After(h)]
            /\ UNCHANGED pc
    /\ Hold(h)
    /\ UNCHANGED <<storeVars, workers, scope, proc, data, statuses, message, sent, acked,
                   response, call>>

\* process_lead_statuses / process_pipelines: the test of one entry
ProcessStatus(h) ==
    /\ pc[h] = "run" /\ pos[h][1] \in {4, 5} /\ CanRun(h)
    /\ IsObject(Entry(h))
    /\ IF Truthy(Entry(h).id) /\ TruthyName(Entry(h).name)
       THEN /\ pc' = [pc EXCEPT ![h] = "load"]
            /\ UNCHANGED pos
       ELSE /\ pos' = [pos EXCEPT ![h] = After(h)]
            /\ UNCHANGED pc
    /\ Hold(h)
    /\ UNCHANGED <<storeVars, workers, scope, proc, data, statuses, message, sent, acked,
                   response, call>>

\* the return statement of amocrm_webhook
Respond(h) ==
    /\ pc[h] = "run" /\ pos[h][1] = NumSections + 1 /\ CanRun(h)
    /\ pc' = [pc EXCEPT ![h] = "done"]
    /\ response' = [response EXCEPT ![h] = "success"]
    /\ Yield(h)
    /\ UNCHANGED <<storeVars, workers, scope, proc, data, pos, statuses, message, sent,
                   acked, call>>

(***************************************************************************)
(* update_lead_status and get_status_name inside a delivery.  Between the  *)
(* load and the save of one update the coroutine does not await, so only   *)
(* a coroutine of another worker process can run in between.               *)
(***************************************************************************)
\* the file of the delivery's scope exists and holds a JSON document
Readable(h) == files[get_status_file_path(scope[h])].state = "ok"

\* update_lead_status, lines 63-73: load, then change the dict
LoadStep(h, readFails) ==
    /\ pc[h] = "load" /\ CanRun(h)
    /\ statuses' = [statuses EXCEPT ![h] =
                       modify_statuses(load_lead_statuses(files, scope[h], readFails),
                                       UpdateId(h), UpdateName(h), clock)]
    /\ clock' = clock + 1
    /\ pc' = [pc EXCEPT ![h] = "save"]
    /\ Hold(h)
    /\ UNCHANGED <<files, workers, scope, proc, data, pos, message, sent, acked, response, call,
                   everStored>>

\* after update_lead_status returned: format_lead_message goes on (lines
\* 142-145) or the status loop takes its next entry
AfterUpdate(h) ==
    IF pos[h][1] = 1
    THEN /\ IF TruthyName(Rec(h).status_name)
            THEN /\ message' = [message EXCEPT ![h].has_status = TRUE,
                                               ![h].status = Rec(h).status_name.v]
                 /\ pc' = [pc EXCEPT ![h] = "send"]
            ELSE /\ pc' = [pc EXCEPT ![h] = "getname"]
                 /\ UNCHANGED message
         /\ UNCHANGED pos
    ELSE /\ pos' = [pos EXCEPT ![h] = After(h)]
         /\ pc' = [pc EXCEPT ![h] = "run"]
         /\ UNCHANGED message

\* the history after the file of the path became f
Remember(hist, f) ==
    IF f.state # "ok" THEN hist
    ELSE LET m == JsonLoad(f.text)
         IN  [k \in DOMAIN hist \cup DOMAIN m |->
                 IF k \in DOMAIN hist THEN hist[k] ELSE m[k].first_seen]

\* save_lead_statuses, line 54: open the file for writing
OpenStep(h, opens) ==
    /\ pc[h] = "save" /\ CanRun(h)
    /\ IF opens
       THEN /\ files' = [files EXCEPT ![get_status_file_path(scope[h])] = truncate(@)]
            /\ pc' = [pc EXCEPT ![h] = "dump"]
            /\ UNCHANGED <<pos, message>>
       ELSE /\ files' = save_lead_statuses(files, scope[h], statuses[h], "open_fails")
            /\ AfterUpdate(h)
    /\ Hold(h)
    /\ UNCHANGED <<clock, workers, scope, proc, data, statuses, sent, acked, response, call,
                   everStored>>

\* save_lead_statuses, line 55 and the end of the with block: dump and close
DumpStep(h, writes) ==
    /\ pc[h] = "dump" /\ CanRun(h)
    /\ files' = [files EXCEPT ![get_status_file_path(scope[h])] =
                    IF writes THEN write_document(@, statuses[h]) ELSE write_partly(@)]
    /\ everStored' = [everStored EXCEPT ![get_status_file_path(scope[h])] =
                         Remember(@, files'[get_status_file_path(scope[h])])]
    /\ AfterUpdate(h)
    /\ Hold(h)
    /\ UNCHANGED <<clock, workers, scope, proc, data, statuses, sent, acked, response, call>>

\* a lookup that prefers a name the payload's own lead_statuses define
NameStep_seeing_payload(h, readFails) ==
    /\ pc[h] = "getname" /\ CanRun(h)
    /\ LET defs == {i \in DOMAIN data[h].lead_statuses :
                       /\ Str(data[h].lead_statuses[i].id) = Str(Rec(h).status_id)
                       /\ TruthyName(data[h].lead_statuses[i].name)}
       IN  message' = [message EXCEPT
              ![h].has_status = TRUE,
              ![h].status =
                  IF defs # {}
                  THEN data[h].lead_statuses[CHOOSE i \in defs : TRUE].name.v
                  ELSE status_name_of(load_lead_statuses(files, scope[h], readFails),
                                      Rec(h).status_id)]
    /\ pc' = [pc EXCEPT ![h] = "send"]
    /\ Hold(h)
    /\ UNCHANGED <<files, clock, workers, scope, proc, data, pos, statuses, sent, acked,
                   response, call, everStored>>

\* format_lead_message, lines 142-145: the name comes from the store
NameStep(h, readFails) ==
    /\ pc[h] = "getname" /\ CanRun(h)
    /\ message' = [message EXCEPT
          ![h].has_status = TRUE,
          ![h].status = status_name_of(load_lead_statuses(files, scope[h], readFails),
                                       Rec(h).status_id)]
    /\ pc' = [pc EXCEPT ![h] = "send"]
    /\ Hold(h)
    /\ UNCHANGED <<files, clock, workers, scope, proc, data, pos, statuses, sent, acked,
                   response, call, everStored>>

UpdateLoad(h) == LoadStep(h, FALSE) /\ UNCHANGED faults
UpdateOpen(h) == OpenStep(h, TRUE) /\ UNCHANGED faults
UpdateDump(h) == DumpStep(h, TRUE) /\ UNCHANGED faults
GetName(h) == NameStep(h, FALSE) /\ UNCHANGED faults

\* the read of an existing, well-formed file raises (load's except branch)
UpdateLoadFails(h) ==
    /\ faults < MaxIOFaults /\ Readable(h)
    /\ LoadStep(h, TRUE)
    /\ faults' = faults + 1

GetNameFails(h) ==
    /\ faults < MaxIOFaults /\ Readable(h)
    /\ NameStep(h, TRUE)
    /\ faults' = faults + 1

\* the write raises (save's except branch)
UpdateSaveFails(h) ==
    /\ faults < MaxIOFaults
    /\ OpenStep(h, FALSE) \/ DumpStep(h, FALSE)
    /\ faults' = faults + 1

(***************************************************************************)
(* TelegramMessage.send_message                                            *)
(***************************************************************************)
\* the send started without awaiting it: the loop goes on at once
SendStart_not_awaited(h) ==
    /\ pc[h] = "send" /\ CanRun(h)
    /\ sent' = [sent EXCEPT ![h] = Append(sent[h], message[h])]
    /\ pos' = [pos EXCEPT ![h] = After(h)]
    /\ pc' = [pc EXCEPT ![h] = "run"]
    /\ Hold(h)
    /\ UNCHANGED <<storeVars, workers, scope, proc, data, statuses, message, acked,
                   response, call>>

\* await send_message(...): the message goes out and the coroutine is suspended
SendStart(h) ==
    /\ pc[h] = "send" /\ CanRun(h)
    /\ sent' = [sent EXCEPT ![h] = Append(sent[h], message[h])]
    /\ pc' = [pc EXCEPT ![h] = "sending"]
    /\ Yield(h)
    /\ UNCHANGED <<storeVars, workers, scope, proc, data, pos, statuses, message, acked,
                   response, call>>

\* the send returns and the loop goes to its next record
SendReturn(h) ==
    /\ pc[h] = "sending" /\ CanRun(h)
    /\ acked' = [acked EXCEPT ![h] = acked[h] + 1]
    /\ pos' = [pos EXCEPT ![h] = After(h)]
    /\ pc' = [pc EXCEPT ![h] = "run"]
    /\ Hold(h)
    /\ UNCHANGED <<storeVars, workers, scope, proc, data, statuses, message, sent, response, call>>

\* the exception of a send swallowed: the handler goes on with the next record
SendRaise_swallowed(h) ==
    /\ pc[h] = "sending" /\ CanRun(h)
    /\ pos' = [pos EXCEPT ![h] = After(h)]
    /\ pc' = [pc EXCEPT ![h] = "run"]
    /\ Hold(h)
    /\ UNCHANGED <<storeVars, workers, scope, proc, data, statuses, message, sent,
                   acked, response, call>>

\* the send raises (httpx error, timeout, response without JSON): the exception
\* leaves process_* and reaches the except clause of amocrm_webhook
SendRaise(h) ==
    /\ pc[h] = "sending" /\ CanRun(h)
    /\ pc' = [pc EXCEPT ![h] = "done"]
    /\ response' = [response EXCEPT ![h] = "error500"]
    /\ Yield(h)
    /\ UNCHANGED <<storeVars, workers, scope, proc, data, pos, statuses, message, sent,
                   acked, call>>

(***************************************************************************)
(* Payloads of an unexpected shape.                                        *)
(***************************************************************************)
\* a delivery arrives whose body is JSON of an unexpected shape
DispatchMalformed(h) ==
    /\ pc[h] = "idle"
    /\ \E s \in Scopes, w \in workers, d \in MalformedPayloads :
          /\ scope' = [scope EXCEPT ![h] = s]
          /\ proc' = [proc EXCEPT ![h] = w]
          /\ data' = [data EXCEPT ![h] = d]
          /\ pos' = [pos EXCEPT ![h] = Norm(d, 1, 1, 1)]
    /\ pc' = [pc EXCEPT ![h] = "run"]
    /\ UNCHANGED <<storeVars, workers, loop, statuses, message, sent, acked, response,
                   call>>

\* a delivery arrives whose body is not JSON: request.json() raises and the
\* except clause answers
BodyRaise(h) ==
    /\ pc[h] = "idle"
    /\ \E s \in Scopes, w \in workers :
          /\ scope' = [scope EXCEPT ![h] = s]
          /\ proc' = [proc EXCEPT ![h] = w]
    /\ pc' = [pc EXCEPT ![h] = "done"]
    /\ response' = [response EXCEPT ![h] = "error500"]
    /\ UNCHANGED <<storeVars, workers, loop, data, pos, statuses, message, sent, acked,
                   call>>

\* the loop of a section reaches an element that is not an object: the test
\* of a key raises and the except clause answers
ShapeRaise(h) ==
    /\ pc[h] = "run" /\ pos[h][1] <= NumSections /\ CanRun(h)
    /\ ~IsObject(Entry(h))
    /\ pc' = [pc EXCEPT ![h] = "done"]
    /\ response' = [response EXCEPT ![h] = "error500"]
    /\ Yield(h)
    /\ UNCHANGED <<storeVars, workers, scope, proc, data, pos, statuses, message, sent,
                   acked, call>>

(***************************************************************************)
(* Specifications of the webhook service.                                  *)
(*   Spec       : file I/O and sends succeed; deliveries run concurrently  *)
(*                on one or several worker processes.                      *)
(*   SpecFaulty : in addition reads and writes of the status files and     *)
(*                sends may fail.                                          *)
(*   SpecOneWorker : as Spec, with one worker process serving everything.  *)
(*   SpecMalformed : as Spec, and bodies may be of an unexpected shape or  *)
(*                no JSON, and sends may fail.                             *)
(***************************************************************************)
Next ==
    \E h \in Deliveries :
        \/ Dispatch(h)
        \/ ProcessLead(h)
        \/ ProcessTask(h)
        \/ ProcessContact(h)
        \/ ProcessStatus(h)
        \/ UpdateLoad(h)
        \/ UpdateOpen(h)
        \/ UpdateDump(h)
        \/ GetName(h)
        \/ SendStart(h)
        \/ SendReturn(h)
        \/ Respond(h)

Failure ==
    \E h \in Deliveries :
        \/ UpdateLoadFails(h)
        \/ UpdateSaveFails(h)
        \/ GetNameFails(h)
        \/ SendRaise(h)

NextFaulty == Next \/ Failure

Spec == Init /\ [][Next]_vars

SpecFaulty == Init /\ [][NextFaulty]_vars

\* file I/O and sends succeed and one process serves all deliveries
SpecOneWorker == InitOneWorker /\ [][Next]_vars

(***************************************************************************)
(* Redelivery: the sender delivers a payload it has delivered before.      *)
(***************************************************************************)
\* the payload of a delivery that was answered success arrives again for
\* the same scope, while no other delivery is being processed; call notes
\* the files as the redelivery finds them
Redeliver(g) ==
    /\ pc[g] = "idle"
    /\ \A h \in Deliveries \ {g} : pc[h] = "done"
    /\ \E h \in Deliveries \ {g}, w \in workers :
          /\ response[h] = "success"
          /\ scope' = [scope EXCEPT ![g] = scope[h]]
          /\ proc' = [proc EXCEPT ![g] = w]
          /\ data' = [data EXCEPT ![g] = data[h]]
          /\ pos' = [pos EXCEPT ![g] = Norm(data[h], 1, 1, 1)]
          /\ call' = [op |-> "redeliver", scope_id |-> scope[h], status_id |-> NoId,
                      name |-> "", prev_op |-> call.op, prev_id |-> call.status_id,
                      before |-> files, result |-> EmptyMap, text |-> "",
                      delivery |-> g, first |-> h]
    /\ pc' = [pc EXCEPT ![g] = "run"]
    /\ UNCHANGED <<storeVars, workers, loop, statuses, message, sent, acked, response>>

NextRedelivery == Next \/ \E g \in Deliveries : Redeliver(g)

\* file I/O and sends succeed; a payload may be delivered a second time
SpecRedelivery == Init /\ [][NextRedelivery]_vars

Malformed ==
    \E h \in Deliveries :
        \/ DispatchMalformed(h)
        \/ BodyRaise(h)
        \/ ShapeRaise(h)
        \/ SendRaise(h)

NextMalformed == Next \/ Malformed

SpecMalformed == Init /\ [][NextMalformed]_vars

(***************************************************************************)
(* The DataManager interface called directly, one call after the other,    *)
(* on a file system that does not fail: what a caller of update, get_name  *)
(* and the GET /status/{scope_id} endpoint observes.                       *)
(***************************************************************************)
\* number of update_lead_status calls made directly
MaxStoreUpdates == 3

ApiIds == {IntId(7), StrId("7"), IntId(142), StrId("8")}
ApiNames == {"A", "B"}

\* DataManager.update_lead_status: the files afterwards and the dict returned
update_lead_status(fs, scope_id, status_id, status_name, now) ==
    LET st == modify_statuses(load_lead_statuses(fs, scope_id, FALSE),
                              status_id, status_name, now)
    IN  [files |-> save_lead_statuses(fs, scope_id, st, "ok"), statuses |-> st]

\* a lookup that creates the store of a scope it finds no record in
get_status_name_creating(fs, scope_id, status_id) ==
    LET st == load_lead_statuses(fs, scope_id, FALSE)
    IN  IF Str(status_id) \in DOMAIN st
        THEN [files |-> fs, name |-> st[Str(status_id)].name]
        ELSE [files |-> save_lead_statuses(fs, scope_id, st, "ok"),
              name |-> Fallback(status_id)]

\* DataManager.get_status_name: the files afterwards and the string returned
get_status_name(fs, scope_id, status_id) ==
    [files |-> fs,
     name |-> status_name_of(load_lead_statuses(fs, scope_id, FALSE), status_id)]

\* GET /status/{scope_id}: the files afterwards and the "statuses" of the reply
get_statuses(fs, scope_id) ==
    [files |-> fs, statuses |-> load_lead_statuses(fs, scope_id, FALSE)]

CallUpdate ==
    /\ clock <= MaxStoreUpdates
    /\ \E s \in Scopes, id \in ApiIds, nm \in ApiNames :
          LET r == update_lead_status(files, s, id, nm, clock)
          IN  /\ files' = r.files
              /\ everStored' = [everStored EXCEPT ![get_status_file_path(s)] =
                                   Remember(@, r.files[get_status_file_path(s)])]
              /\ call' = [op |-> "update", scope_id |-> s, status_id |-> id,
                          name |-> nm, prev_op |-> call.op,
                          prev_id |-> call.status_id,
                          before |-> files, result |-> r.statuses,
                          text |-> ""]
    /\ clock' = clock + 1
    /\ UNCHANGED <<faults, handlerVars>>

CallGetName ==
    /\ \E s \in Scopes, id \in ApiIds :
          LET r == get_status_name(files, s, id)
          IN  /\ files' = r.files
              /\ call' = [op |-> "get_name", scope_id |-> s, status_id |-> id,
                          name |-> "", prev_op |-> call.op,
                          prev_id |-> call.status_id,
                          before |-> files, result |-> EmptyMap,
                          text |-> r.name]
    /\ UNCHANGED <<clock, faults, everStored, handlerVars>>

CallGetStatuses ==
    /\ \E s \in Scopes :
          LET r == get_statuses(files, s)
          IN  /\ files' = r.files
              /\ call' = [op |-> "get_statuses", scope_id |-> s, status_id |-> NoId,
                          name |-> "", prev_op |-> call.op,
                          prev_id |-> call.status_id,
                          before |-> files, result |-> r.statuses,
                          text |-> ""]
    /\ UNCHANGED <<clock, faults, everStored, handlerVars>>

NextStore == CallUpdate \/ CallGetName \/ CallGetStatuses

SpecStore == Init /\ [][NextStore]_vars

(***************************************************************************)
(* update called directly on a store whose reads or writes may fail.       *)
(***************************************************************************)
\* an update that gives up when its load failed
update_unreadable_aborting(fs, scope_id, status_id, status_name, now) ==
    [files |-> fs, statuses |-> EmptyMap]

\* DataManager.update_lead_status when the read of the file raises
update_lead_status_unreadable(fs, scope_id, status_id, status_name, now) ==
    LET st == modify_statuses(load_lead_statuses(fs, scope_id, TRUE),
                              status_id, status_name, now)
    IN  [files |-> save_lead_statuses(fs, scope_id, st, "ok"), statuses |-> st]

\* DataManager.update_lead_status when the write of the file raises
update_lead_status_unwritable(fs, scope_id, status_id, status_name, now) ==
    LET st == modify_statuses(load_lead_statuses(fs, scope_id, FALSE),
                              status_id, status_name, now)
    IN  [files |-> save_lead_statuses(fs, scope_id, st, "write_fails"), statuses |-> st]

CallUpdateUnreadable ==
    /\ clock <= MaxStoreUpdates
    /\ \E s \in Scopes, id \in ApiIds, nm \in ApiNames :
          /\ files[get_status_file_path(s)].state = "ok"
          /\ LET r == update_lead_status_unreadable(files, s, id, nm, clock)
             IN  /\ files' = r.files
                 /\ call' = [op |-> "update_unreadable", scope_id |-> s,
                             status_id |-> id, name |-> nm, prev_op |-> call.op,
                             prev_id |-> call.status_id,
                             before |-> files, result |-> r.statuses, text |-> ""]
    /\ clock' = clock + 1
    /\ UNCHANGED <<faults, everStored, handlerVars>>

CallUpdateUnwritable ==
    /\ clock <= MaxStoreUpdates
    /\ \E s \in Scopes, id \in ApiIds, nm \in ApiNames :
          LET r == update_lead_status_unwritable(files, s, id, nm, clock)
          IN  /\ files' = r.files
              /\ call' = [op |-> "update_unwritable", scope_id |-> s,
                          status_id |-> id, name |-> nm, prev_op |-> call.op,
                          prev_id |-> call.status_id,
                          before |-> files, result |-> r.statuses, text |-> ""]
    /\ clock' = clock + 1
    /\ UNCHANGED <<faults, everStored, handlerVars>>

NextStoreFaulty == CallUpdate \/ CallUpdateUnreadable \/ CallUpdateUnwritable

SpecStoreFaulty == Init /\ [][NextStoreFaulty]_vars

(***************************************************************************)
(* save and load called directly with mappings of the caller's choice.     *)
(***************************************************************************)
SaveKeys == {"7", "142"}
SaveRecords == {[name |-> "A", first_seen |-> 1],
                [name |-> "B", first_seen |-> 1, last_updated |-> 2]}
\* the mappings with keys among SaveKeys and records among SaveRecords
Mappings == UNION {[K -> SaveRecords] : K \in SUBSET SaveKeys}

CallSave ==
    /\ \E s \in Scopes, M \in Mappings :
          /\ files' = save_lead_statuses(files, s, M, "ok")
          /\ everStored' = [everStored EXCEPT ![get_status_file_path(s)] =
                               Remember(@, files'[get_status_file_path(s)])]
          /\ call' = [op |-> "save", scope_id |-> s, status_id |-> NoId,
                      name |-> "", prev_op |-> call.op,
                      prev_id |-> call.status_id,
                      before |-> files, result |-> M, text |-> ""]
    /\ UNCHANGED <<clock, faults, handlerVars>>

NextSave == CallSave \/ CallGetStatuses

SpecSave == Init /\ [][NextSave]_vars

(***************************************************************************)
(* Properties.                                                             *)
(***************************************************************************)
\* the mapping a scope's file holds
Persisted(fs, scope_id) == load_lead_statuses(fs, scope_id, FALSE)

\* the store keys a payload's updates address: leads with a status id and a
\* status_name key, status entries with an id and a name
KeysCarried(d) ==
    {Str(d.leads[i].status_id) : i \in {j \in DOMAIN d.leads :
        Truthy(d.leads[j].status_id) /\ d.leads[j].status_name.has}}
    \cup {Str(d.lead_statuses[i].id) : i \in {j \in DOMAIN d.lead_statuses :
        Truthy(d.lead_statuses[j].id) /\ TruthyName(d.lead_statuses[j].name)}}
    \cup UNION {{Str(d.pipelines[i].statuses[j].id) :
                    j \in {x \in DOMAIN d.pipelines[i].statuses :
                        /\ Truthy(d.pipelines[i].statuses[x].id)
                        /\ TruthyName(d.pipelines[i].statuses[x].name)}} :
                 i \in {y \in DOMAIN d.pipelines : d.pipelines[y].has_statuses}}

\* no save of the scope's file is between its open and its close
NoSaveInProgress(scope_id) ==
    \A h \in Deliveries :
        pc[h] = "dump" => get_status_file_path(scope[h]) # get_status_file_path(scope_id)

\* C1 (lost update, last writer wins): a save replaces the whole file by the
\* dict the saving delivery loaded and changed, whatever other deliveries
\* have saved since that load: when a delivery's save completes, the file
\* holds exactly that delivery's dict (or, when a save of another process
\* ran into it, no JSON document at all); no record of the file that the
\* dict lacks survives.
C1_LastWriterWins ==
    [][\A h \in Deliveries :
          (pc[h] = "dump" /\ pc'[h] # "dump") =>
              \/ /\ files'[get_status_file_path(scope[h])].state = "ok"
                 /\ Persisted(files', scope[h]) = statuses[h]
              \/ /\ files'[get_status_file_path(scope[h])].state = "corrupt"
                 /\ Persisted(files', scope[h]) = EmptyMap]_vars

\* C1 witness: two deliveries for one scope both answered success, the file
\* is a JSON document with the records of one, and a record the other had
\* saved is not in it.
C1_LostUpdateHappened ==
    \E h, g \in Deliveries :
        /\ h # g /\ scope[h] = scope[g]
        /\ pc[h] = "done" /\ pc[g] = "done"
        /\ files[get_status_file_path(scope[h])].state = "ok"
        /\ KeysCarried(data[h]) # {}
        /\ KeysCarried(data[h]) \subseteq DOMAIN Persisted(files, scope[h])
        /\ \E k \in KeysCarried(data[g]) :
              /\ k \in DOMAIN everStored[get_status_file_path(scope[g])]
              /\ k \notin DOMAIN Persisted(files, scope[h])

\* C2 (records are never removed, first_seen never changes): whenever no save
\* of a scope's file is in progress, every record a completed save has put
\* into the file is still in it, with the first_seen it was stored with.
C2_RecordsPersist ==
    \A s \in Scopes :
        NoSaveInProgress(s) =>
            \A k \in DOMAIN everStored[get_status_file_path(s)] :
                /\ k \in DOMAIN Persisted(files, s)
                /\ Persisted(files, s)[k].first_seen =
                       everStored[get_status_file_path(s)][k]

\* C3 (update creates, then updates in place): a call update(S, I, n) on a
\* store without I leaves a record with name n and a first_seen; on a store
\* that has I (as after an immediately preceding update(S, I, n1)) it leaves
\* the record with name n, the first_seen it had and a last_updated; in both
\* cases every other record of S is as before and the mapping returned is
\* the mapping persisted.
C3_UpdateCreatesThenUpdates ==
    call.op = "update" =>
        LET before == Persisted(call.before, call.scope_id)
            after == Persisted(files, call.scope_id)
            k == Str(call.status_id)
        IN  /\ files[get_status_file_path(call.scope_id)].state = "ok"
            /\ after = call.result
            /\ DOMAIN after = DOMAIN before \cup {k}
            /\ \A j \in DOMAIN before \ {k} : after[j] = before[j]
            /\ after[k].name = call.name
            /\ "first_seen" \in DOMAIN after[k]
            /\ k \notin DOMAIN before =>
                   /\ after[k].first_seen = clock - 1
                   /\ "last_updated" \notin DOMAIN after[k]
            /\ k \in DOMAIN before =>
                   /\ after[k].first_seen = before[k].first_seen
                   /\ "last_updated" \in DOMAIN after[k]

\* C3 witness: update(S, I, "B") right after the update(S, I, "A") that created
\* the record, next to another record of S.
C3_SecondUpdateSeen ==
    /\ call.op = "update" /\ call.name = "B"
    /\ LET before == Persisted(call.before, call.scope_id)
           k == Str(call.status_id)
       IN  /\ k \in DOMAIN before
           /\ before[k].name = "A"
           /\ "last_updated" \notin DOMAIN before[k]
           /\ before[k].first_seen = clock - 2
           /\ DOMAIN before # {k}

\* ids to ask the store for
ProbeIds == {IntId(7), StrId("7"), IntId(8), IntId(142), IntId(143), StrId("143")}

\* the deliveries that have arrived for a scope
Addressed(scope_id) == {h \in Deliveries : pc[h] # "idle" /\ scope[h] = scope_id}

\* C4 (scopes are isolated): a scope's file changes only in a save of a
\* delivery addressed to that scope; so the store of B holds only keys that
\* deliveries addressed to B carry, there is no file for B before a delivery
\* for B arrives, and get_name(B, I) is the fallback for every I that no
\* delivery addressed to B carries, whatever was delivered to A.
C4_ScopesIsolated ==
    /\ [](\A s \in Scopes :
            LET keys == UNION {KeysCarried(data[h]) : h \in Addressed(s)}
            IN  /\ DOMAIN Persisted(files, s) \subseteq keys
                /\ Addressed(s) = {} => files[get_status_file_path(s)] = NoFile
                /\ \A id \in ProbeIds :
                      Str(id) \notin keys =>
                          get_status_name(files, s, id).name = "Status " \o Str(id))
    /\ [][\A s \in Scopes :
             files'[get_status_file_path(s)] # files[get_status_file_path(s)] =>
                 \E h \in Deliveries : scope[h] = s /\ pc[h] \in {"save", "dump"}]_vars

\* C4 witness: a delivery to A has finished and A holds a record for an id;
\* a delivery to B # A is about to ask B's store for that id and gets the
\* fallback.
C4_OtherScopeAsksForSameId ==
    \E h, g \in Deliveries :
        /\ scope[h] # scope[g]
        /\ pc[h] = "done" /\ pc[g] = "getname"
        /\ Str(Rec(g).status_id) \in DOMAIN Persisted(files, scope[h])
        /\ get_status_name(files, scope[g], Rec(g).status_id).name
               = "Status " \o Str(Rec(g).status_id)

\* C5 (a failed send does not keep Status Store updates from being applied):
\* when a delivery has been answered, with no store I/O failure and no other
\* delivery around, every update its payload carries is in the store.
C5_UpdatesAppliedDespiteSendFailure ==
    \A h \in Deliveries :
        (/\ pc[h] = "done" /\ faults = 0
         /\ \A g \in Deliveries \ {h} : pc[g] = "idle")
        => KeysCarried(data[h]) \subseteq DOMAIN Persisted(files, scope[h])

\* the records of a payload that produce a message, as <<section, index>>, in
\* the order leads, tasks, contacts and in list order
Producing(d) ==
    LET leadIdx == SelectSeq([i \in DOMAIN d.leads |-> i],
                      LAMBDA i : \/ d.leads[i].add \/ d.leads[i].update
                                 \/ Truthy(d.leads[i].status_id))
        taskIdx == SelectSeq([i \in DOMAIN d.tasks |-> i],
                      LAMBDA i : \/ d.tasks[i].add \/ d.tasks[i].update
                                 \/ d.tasks[i].is_completed)
        contactIdx == SelectSeq([i \in DOMAIN d.contacts |-> i],
                      LAMBDA i : d.contacts[i].add \/ d.contacts[i].update)
    IN  [i \in DOMAIN leadIdx |-> <<1, leadIdx[i]>>]
        \o [i \in DOMAIN taskIdx |-> <<2, taskIdx[i]>>]
        \o [i \in DOMAIN contactIdx |-> <<3, contactIdx[i]>>]

\* the records a delivery has handed to the sink, as <<section, index>>
Emitted(h) == [i \in DOMAIN sent[h] |-> <<sent[h][i].sec, sent[h][i].idx>>]

\* C6 (order within a payload): the messages a delivery has handed to the
\* sink are an initial part of its payload's message-producing records in
\* the order leads, tasks, contacts and list order; at most one send is
\* outstanding, and only while the delivery waits for it; when the delivery
\* is at its status or pipeline entries, or has returned, all its messages
\* have been sent and have returned.  Other deliveries run concurrently.
C6_PayloadOrder ==
    \A h \in Deliveries :
        pc[h] # "idle" =>
            LET exp == Producing(data[h])
                got == Emitted(h)
            IN  /\ Len(got) <= Len(exp)
                /\ got = SubSeq(exp, 1, Len(got))
                /\ Len(sent[h]) - acked[h] = (IF pc[h] = "sending" THEN 1 ELSE 0)
                /\ pc[h] = "send" =>
                       /\ Len(got) < Len(exp)
                       /\ exp[Len(got) + 1] = <<message[h].sec, message[h].idx>>
                /\ (pos[h][1] >= 4) => (got = exp /\ acked[h] = Len(exp))

\* C6 witness: two deliveries each wait for a send, each having sent messages
\* before, one of them from two sections.
C6_TwoDeliveriesInterleaved ==
    \E h, g \in Deliveries :
        /\ h # g
        /\ pc[h] = "sending" /\ pc[g] = "sending"
        /\ Len(sent[h]) >= 3 /\ Len(sent[g]) >= 2
        /\ sent[h][1].sec # sent[h][3].sec

\* the emoji the decision table of lead events gives a record ("" for none)
LeadTableEmoji(lead) ==
    IF lead.add THEN "MEMO"
    ELSE IF Truthy(lead.status_id)
         THEN IF Str(lead.status_id) \in {Decimal(142), Decimal(143)}
              THEN "PARTY" ELSE "CYCLE"
         ELSE IF lead.update THEN "CYCLE" ELSE ""

\* the messages a delivery has sent for lead i
LeadMessages(h, i) == {n \in DOMAIN sent[h] : sent[h][n].sec = 1 /\ sent[h][n].idx = i}

\* C7 (lead event kind): for every lead record the kind is new with an "add"
\* marker, else success / update with a status id (success iff the id in
\* string form is "142" or "143"), else update with an "update" marker, else
\* none; a record of kind none gets no message, every other record exactly
\* one once the loop has passed it, and that message has the emoji of the kind.
C7_LeadEventKind ==
    \A h \in Deliveries :
        pc[h] # "idle" =>
            \A i \in DOMAIN data[h].leads :
                LET emoji == LeadTableEmoji(data[h].leads[i])
                    msgs == LeadMessages(h, i)
                IN  /\ Cardinality(msgs) <= 1
                    /\ emoji = "" => msgs = {}
                    /\ \A n \in msgs : sent[h][n].emoji = emoji
                    /\ (emoji # "" /\ (pos[h][1] > 1 \/ pos[h][2] > i)) =>
                           Cardinality(msgs) = 1

\* C7 witness: the message of a record with an "add" marker and the
\* successful status id 142 has been sent, as a new deal; and a record with
\* status id "143" given as a string has been sent as a success.
C7_AddBeatsSuccess ==
    \E h, g \in Deliveries :
        /\ \E n \in DOMAIN sent[h] :
              /\ sent[h][n].sec = 1 /\ sent[h][n].emoji = "MEMO"
              /\ data[h].leads[sent[h][n].idx].status_id = IntId(142)
        /\ \E n \in DOMAIN sent[g] :
              /\ sent[g][n].sec = 1 /\ sent[g][n].emoji = "PARTY"
              /\ data[g].leads[sent[g][n].idx].status_id = StrId("143")

\* C8 (status line of a lead message), deliveries served by one worker
\* process: when the message of a lead is ready to be sent, it has a status
\* line exactly if the lead has a status id; if the lead also carries a
\* status_name, the scope's store holds that id with that name before the
\* message is handed to the sink and the line shows that name; a name that is
\* looked up is the name the store holds for the id at the lookup, or
\* "Status <id>" when the store has no record of it; the message handed to
\* the sink is the message formatted.
C8_StatusLine ==
    /\ [](\A h \in Deliveries :
            (pc[h] \in {"send", "sending"} /\ pos[h][1] = 1) =>
                LET lead == Rec(h)
                    k == Str(lead.status_id)
                    store == Persisted(files, scope[h])
                IN  /\ message[h].has_status = Truthy(lead.status_id)
                    /\ (Truthy(lead.status_id) /\ lead.status_name.has) =>
                           /\ message[h].status = lead.status_name.v
                           /\ pc[h] = "send" =>
                                  /\ k \in DOMAIN store
                                  /\ store[k].name = lead.status_name.v
                    /\ pc[h] = "sending" => sent[h][Len(sent[h])] = message[h])
    /\ [][\A h \in Deliveries :
             (pc[h] = "getname" /\ pc'[h] = "send") =>
                 LET k == Str(Rec(h).status_id)
                     store == Persisted(files, scope[h])
                 IN  message'[h].status =
                         IF k \in DOMAIN store THEN store[k].name
                         ELSE "Status " \o k]_vars

\* C8 witness: a delivery waits for the send of a lead without status_name
\* whose line shows the name "B" an earlier lead of the payload carried and
\* had written; another delivery has sent the fallback for "143".
C8_CachedNameShown ==
    \E h, g \in Deliveries :
        /\ pc[h] = "sending" /\ pos[h][1] = 1
        /\ Truthy(Rec(h).status_id) /\ ~Rec(h).status_name.has
        /\ message[h].status = "B"
        /\ \E n \in 1..(Len(sent[h]) - 1) :
              /\ data[h].leads[sent[h][n].idx].status_name = Name("B")
              /\ sent[h][n].status = "B"
        /\ \E n \in DOMAIN sent[g] :
              /\ sent[g][n].has_status
              /\ sent[g][n].status = "Status 143"

\* C9 (store I/O failures stay inside the store): a load of a missing,
\* corrupt or unreadable file gives the empty mapping (an update then holds
\* the one new record, a lookup gives the fallback); a save that fails leaves
\* the dict the update returns as modified, leaves the file as it was or
\* without a document, and the delivery goes on unanswered; a delivery is
\* answered with the server error only when a send of it did not return.
C9_StoreFailuresContained ==
    /\ [](\A h \in Deliveries :
            response[h] = "error500" => Len(sent[h]) = acked[h] + 1)
    /\ [][\A h \in Deliveries :
             LET p == get_status_file_path(scope[h])
                 failed == faults' # faults
             IN  /\ (/\ pc[h] = "load" /\ pc'[h] = "save"
                     /\ (files[p].state # "ok" \/ failed)) =>
                        /\ DOMAIN statuses'[h] = {Str(UpdateId(h))}
                        /\ statuses'[h][Str(UpdateId(h))] =
                               [name |-> UpdateName(h), first_seen |-> clock]
                 /\ (/\ pc[h] = "getname" /\ pc'[h] = "send"
                     /\ (files[p].state # "ok" \/ failed)) =>
                        message'[h].status = "Status " \o Str(Rec(h).status_id)
                 /\ (pc[h] \in {"save", "dump"} /\ pc'[h] # pc[h] /\ failed) =>
                        /\ statuses'[h] = statuses[h]
                        /\ Str(UpdateId(h)) \in DOMAIN statuses[h]
                        /\ statuses[h][Str(UpdateId(h))].name = UpdateName(h)
                        /\ files'[p] = files[p] \/ files'[p].state = "corrupt"
                        /\ response'[h] = "none"
                        /\ pc'[h] \in {"send", "getname", "run"}]_vars

\* C9 witness: a delivery, alone, was answered success although the save of
\* its last update failed: the dict the update returned has the record, the
\* store does not.
C9_SaveFailedAnsweredSuccess ==
    \E h \in Deliveries :
        /\ response[h] = "success" /\ faults > 0
        /\ \A g \in Deliveries \ {h} : pc[g] = "idle"
        /\ \E k \in KeysCarried(data[h]) :
              /\ k \in DOMAIN statuses[h]
              /\ k \notin DOMAIN Persisted(files, scope[h])

\* C10 (lookup of an unknown id): get_name(S, I) for an I no update has
\* written to S returns "Status <I>" with the id as given; the same call made
\* again returns the same string; get_name and the GET status endpoint leave
\* every file as it was, so no record and no file for S comes into being, and
\* the endpoint reports the mapping the file holds.
C10_UnknownIdFallback ==
    /\ [](/\ call.op = "get_name" =>
               LET p == get_status_file_path(call.scope_id)
                   k == Str(call.status_id)
               IN  /\ files = call.before
                   /\ k \notin DOMAIN everStored[p] =>
                          /\ call.text = "Status " \o k
                          /\ k \notin DOMAIN Persisted(files, call.scope_id)
                          /\ call.before[p] = NoFile => files[p] = NoFile
          /\ call.op = "get_statuses" =>
               /\ files = call.before
               /\ call.result = Persisted(call.before, call.scope_id))
    /\ [][(/\ call.op = "get_name" /\ call'.op = "get_name"
           /\ call'.scope_id = call.scope_id
           /\ call'.status_id = call.status_id) =>
              (call'.text = call.text /\ files' = files)]_vars

\* C10 witness: get_name was called for "7" on a scope that has no file and
\* returned the fallback, while the other scope holds a record for "7".
C10_FallbackForScopeWithoutStore ==
    /\ call.op = "get_name" /\ call.status_id = StrId("7")
    /\ call.text = "Status 7"
    /\ files[get_status_file_path(call.scope_id)] = NoFile
    /\ \E s \in Scopes \ {call.scope_id} : "7" \in DOMAIN Persisted(files, s)

\* configured chat destinations (only the default is configured)
TELEGRAM_CHAT_IDS == [default |-> ""]
chat_id(scope_id) ==
    IF scope_id \in DOMAIN TELEGRAM_CHAT_IDS THEN TELEGRAM_CHAT_IDS[scope_id]
    ELSE TELEGRAM_CHAT_IDS["default"]

\* a section's list of the payload holds an element that is not an object
HasNonObject(d) ==
    \E s \in 1..4 : \E i \in DOMAIN Section(d, s) : ~IsObject(Section(d, s)[i])

\* the delivery was answered before its body was parsed
BodyUnparsed(h) == pos[h][1] = 1 /\ data[h].leads = <<>>

\* C11 (one response per call): a delivery is answered exactly when it has
\* ended, with success or the server error and never a second time; success
\* only after every section was passed, every send returned and no element
\* was of an unexpected shape; the server error only when the body was no
\* JSON, the loop stands at a non-object or a send did not return; no scope
\* is configured and none is an error: each uses the default destination and
\* starts without a status file.
C11_OneResponse ==
    /\ [](\A h \in Deliveries :
            /\ response[h] \in {"none", "success", "error500"}
            /\ (response[h] # "none") = (pc[h] = "done")
            /\ response[h] = "success" =>
                   /\ pos[h][1] = NumSections + 1
                   /\ acked[h] = Len(sent[h])
                   /\ ~HasNonObject(data[h])
            /\ response[h] = "error500" =>
                   \/ BodyUnparsed(h)
                   \/ pos[h][1] <= NumSections /\ ~IsObject(Entry(h))
                   \/ Len(sent[h]) = acked[h] + 1
            /\ chat_id(scope[h]) = TELEGRAM_CHAT_IDS["default"])
    /\ [][\A h \in Deliveries :
             /\ response[h] # "none" => response'[h] = response[h]
             /\ (/\ pc[h] = "idle" /\ pc'[h] = "run"
                 /\ files[get_status_file_path(scope'[h])] = NoFile) =>
                    load_lead_statuses(files, scope'[h], FALSE) = EmptyMap]_vars

\* C11 witness: one delivery was answered with the server error at a
\* non-object after a message of it had been sent and returned; the other,
\* for a scope that has no status file, was answered success.
C11_ErrorAfterPartialWork ==
    \E h, g \in Deliveries :
        /\ response[h] = "error500"
        /\ Len(sent[h]) >= 1 /\ acked[h] = Len(sent[h])
        /\ ~IsObject(Entry(h))
        /\ response[g] = "success"
        /\ Len(sent[g]) >= 1
        /\ files[get_status_file_path(scope[g])] = NoFile

\* the delivery takes a step
Acts(h) == pc'[h] # pc[h] \/ pos'[h] # pos[h]

\* the status lists of the pipelines that have one, in order, as one list
RECURSIVE PipelineEntries(_)
PipelineEntries(pipelines) ==
    IF pipelines = <<>> THEN <<>>
    ELSE (IF Head(pipelines).has_statuses THEN Head(pipelines).statuses ELSE <<>>)
         \o PipelineEntries(Tail(pipelines))

\* the entries of the two metadata sections in processing order
MetaEntries(d) == d.lead_statuses \o PipelineEntries(d.pipelines)

\* the positions of the metadata entries that have an id and a name, for key k
MetaHits(d, k) ==
    {i \in DOMAIN MetaEntries(d) :
        /\ Truthy(MetaEntries(d)[i].id) /\ TruthyName(MetaEntries(d)[i].name)
        /\ Str(MetaEntries(d)[i].id) = k}

\* the largest number of a non-empty set of numbers
Last(S) == CHOOSE i \in S : \A j \in S : j <= i

\* C12 (metadata sections warm the cache silently), deliveries served by one
\* worker process: when a delivery is answered success, the scope's store
\* holds, for every id that an entry of lead_statuses or of a pipeline's
\* statuses gives with a name, the name of the last such entry; while a
\* delivery is in these sections it hands no message to the sink, and all
\* messages ever sent are of leads, tasks and contacts; an entry without an
\* id or without a name leaves the files as they are and no update starts.
C12_MetadataWarmsCache ==
    /\ [](\A h \in Deliveries : \A n \in DOMAIN sent[h] : sent[h][n].sec \in 1..3)
    /\ [][\A h \in Deliveries :
             /\ (pc[h] # "done" /\ response'[h] = "success") =>
                    \A i \in DOMAIN MetaEntries(data[h]) :
                        LET e == MetaEntries(data[h])[i]
                            k == Str(e.id)
                            store == Persisted(files', scope[h])
                        IN  (Truthy(e.id) /\ TruthyName(e.name)) =>
                                /\ k \in DOMAIN store
                                /\ store[k].name =
                                       MetaEntries(data[h])[Last(MetaHits(data[h], k))].name.v
             /\ (pos[h][1] \in {4, 5} /\ pc[h] # "idle") => sent'[h] = sent[h]
             /\ (/\ Acts(h) /\ pc[h] = "run" /\ pos[h][1] \in {4, 5}
                 /\ ~(Truthy(Entry(h).id) /\ TruthyName(Entry(h).name))) =>
                    (files' = files /\ pc'[h] = "run" /\ pos'[h] = After(h))]_vars

\* C12 witness: a delivery whose lead_statuses name one id twice, as 7 "A"
\* and as "7" "B", and hold an entry without id, was answered success with
\* no message sent; the store has "B" for "7"; the other delivery, answered
\* before, had defined "7" and 8 through a pipeline.
C12_LastEntryWon ==
    \E h, g \in Deliveries :
        /\ response[h] = "success" /\ sent[h] = <<>>
        /\ Cardinality(MetaHits(data[h], "7")) = 2
        /\ \E i \in DOMAIN data[h].lead_statuses : ~Truthy(data[h].lead_statuses[i].id)
        /\ response[g] = "success" /\ scope[g] = scope[h]
        /\ data[g].pipelines # <<>>
        /\ DOMAIN Persisted(files, scope[h]) = {"7"}
        /\ Persisted(files, scope[h])["7"].name = "B"
        /\ "last_updated" \in DOMAIN Persisted(files, scope[h])["7"]

\* the delivery stands at a lead that has a status id and a status_name key
AtNamedLead(h) ==
    /\ pos[h][1] = 1
    /\ Truthy(Rec(h).status_id) /\ Rec(h).status_name.has

\* C13 (which records write the store): no step a delivery takes while it
\* stands at a task, at a contact, or at a lead without a status id or
\* without a status_name key changes any file, whether or not a message is
\* formatted and sent for the record; a file changes only in the save of a
\* delivery that stands at a lead with both, or at a metadata entry.
C13_OnlyNamedLeadsWrite ==
    [][\A h \in Deliveries :
          /\ (/\ Acts(h) /\ pc[h] # "idle" /\ pos[h][1] \in 1..3
              /\ ~AtNamedLead(h)) => files' = files
          /\ (Acts(h) /\ files' # files) =>
                 /\ pc[h] \in {"save", "dump"}
                 /\ pos[h][1] \in {4, 5} \/ AtNamedLead(h)]_vars

\* C13 witness: a delivery sent a message for a lead, a task and a contact
\* and was answered success, another waits for the send of a lead with a
\* status id and no name, and their scope still has no file.
C13_MessagesWithoutWrite ==
    \E h, g \in Deliveries :
        /\ response[h] = "success" /\ acked[h] = 4
        /\ {sent[h][n].sec : n \in DOMAIN sent[h]} = {1, 2, 3}
        /\ scope[g] = scope[h]
        /\ pc[g] = "sending" /\ pos[g][1] = 1
        /\ Truthy(Rec(g).status_id) /\ ~Rec(g).status_name.has
        /\ files[get_status_file_path(scope[h])] = NoFile

\* the two ids are written with the same characters, as a number or a string
SameDigits(a, b) ==
    (IF a.t = "int" THEN Decimal(a.n) ELSE a.s) = (IF b.t = "int" THEN Decimal(b.n) ELSE b.s)

\* C14 (ids are normalized to strings): after update(S, I, n) a lookup of S
\* with any id of the same digits, number or string, gives n, and the number
\* of records of S grew by one or, if the digits had a record, not at all;
\* an update with the same digits right after another keeps the record's
\* first_seen and marks it last_updated; a get_name right after an update
\* with the same digits returns the name given; every key of every file is
\* a string, the digits of an id that was given.
C14_IdsNormalized ==
    /\ [](/\ call.op = "update" =>
               LET before == Persisted(call.before, call.scope_id)
                   after == Persisted(files, call.scope_id)
                   known == \E k \in DOMAIN before : \E id \in ApiIds :
                               Str(id) = k /\ SameDigits(id, call.status_id)
               IN  /\ \A id \in ApiIds :
                          SameDigits(id, call.status_id) =>
                              get_status_name(files, call.scope_id, id).name = call.name
                   /\ Cardinality(DOMAIN after) =
                          Cardinality(DOMAIN before) + (IF known THEN 0 ELSE 1)
          /\ \A s \in Scopes : \A k \in DOMAIN Persisted(files, s) :
                 /\ k \in STRING
                 /\ \E id \in ApiIds : SameDigits(id, StrId(k)))
    /\ [][(/\ call.op = "update" /\ call'.scope_id = call.scope_id
           /\ SameDigits(call'.status_id, call.status_id)) =>
              /\ call'.op = "get_name" => call'.text = call.name
              /\ call'.op = "update" =>
                     LET r == Persisted(files, call.scope_id)
                         r2 == Persisted(files', call.scope_id)
                     IN  /\ DOMAIN r2 = DOMAIN r
                         /\ \A k \in DOMAIN r :
                                \/ r2[k] = r[k]
                                \/ /\ r2[k].name = call'.name
                                   /\ r2[k].first_seen = r[k].first_seen
                                   /\ "last_updated" \in DOMAIN r2[k]]_vars

\* C14 witness: update(S, "7", "B") was called right after an update with the
\* number 7 that had left the record "7" named "A"; S still has one record,
\* now named "B", with the first_seen it had.
C14_StringIdHitsNumberRecord ==
    /\ call.op = "update"
    /\ call.status_id = StrId("7")
    /\ call.prev_op = "update" /\ call.prev_id = IntId(7)
    /\ call.name = "B"
    /\ DOMAIN Persisted(call.before, call.scope_id) = {"7"}
    /\ Persisted(call.before, call.scope_id)["7"].name = "A"
    /\ Persisted(call.before, call.scope_id)["7"].first_seen = clock - 2
    /\ DOMAIN Persisted(files, call.scope_id) = {"7"}
    /\ Persisted(files, call.scope_id)["7"].first_seen =
           Persisted(call.before, call.scope_id)["7"].first_seen

\* the emoji the decision table of task events gives a record ("" for none)
TaskTableEmoji(task) ==
    IF task.add THEN "ALARM"
    ELSE IF task.is_completed THEN "CHECK"
    ELSE IF task.update THEN "CLIPBOARD" ELSE ""

\* the messages a delivery has sent for task i
TaskMessages(h, i) == {n \in DOMAIN sent[h] : sent[h][n].sec = 2 /\ sent[h][n].idx = i}

\* C15 (task event kind): for every task record the kind is new with an
\* "add" marker, else completed with a true completion flag, else update
\* with an "update" marker, else none; a record of kind none gets no
\* message, every other record exactly one once the loop has passed it (never
\* more than one), and that message is the record's and has the emoji of
\* the kind.
C15_TaskEventKind ==
    \A h \in Deliveries :
        pc[h] # "idle" =>
            \A i \in DOMAIN data[h].tasks :
                LET emoji == TaskTableEmoji(data[h].tasks[i])
                    msgs == TaskMessages(h, i)
                IN  /\ Cardinality(msgs) <= 1
                    /\ emoji = "" => msgs = {}
                    /\ \A n \in msgs : sent[h][n].emoji = emoji /\ ~sent[h][n].has_status
                    /\ (emoji # "" /\ (pos[h][1] > 2 \/ (pos[h][1] = 2 /\ pos[h][2] > i))) =>
                           Cardinality(msgs) = 1

\* C15 witness: a completed task with an "update" marker and no "add" marker
\* was sent as completed, after a completed task without any marker; in the
\* other delivery a completed task with an "add" marker was sent as new and
\* a task without marker or flag was passed without a message.
C15_CompletedBeatsUpdate ==
    \E h, g \in Deliveries :
        /\ \E n \in DOMAIN sent[h] :
              /\ sent[h][n].sec = 2 /\ sent[h][n].emoji = "CHECK"
              /\ data[h].tasks[sent[h][n].idx] = Task(FALSE, TRUE, TRUE)
        /\ \E n \in DOMAIN sent[h] :
              /\ sent[h][n].sec = 2 /\ sent[h][n].emoji = "CHECK"
              /\ data[h].tasks[sent[h][n].idx] = Task(FALSE, FALSE, TRUE)
        /\ \E n \in DOMAIN sent[g] :
              /\ sent[g][n].sec = 2 /\ sent[g][n].emoji = "ALARM"
              /\ data[g].tasks[sent[g][n].idx] = Task(TRUE, FALSE, TRUE)
        /\ pos[g][1] > 2
        /\ \E i \in DOMAIN data[g].tasks :
              data[g].tasks[i] = Task(FALSE, FALSE, FALSE) /\ TaskMessages(g, i) = {}

\* C16 (save / load round trip): after save(S, M) the file of S is a JSON
\* document whose load is M, whatever the file held before: no key of the
\* earlier mapping is left unless M has it, and the files of other scopes
\* are as they were; a load of S made right after the save returns M and
\* changes no file.
C16_SaveLoadRoundTrip ==
    /\ [](call.op = "save" =>
            LET p == get_status_file_path(call.scope_id)
            IN  /\ files[p].state = "ok"
                /\ load_lead_statuses(files, call.scope_id, FALSE) = call.result
                /\ \A k \in DOMAIN Persisted(call.before, call.scope_id) :
                       k \notin DOMAIN call.result =>
                           k \notin DOMAIN Persisted(files, call.scope_id)
                /\ \A q \in Paths \ {p} : files[q] = call.before[q])
    /\ [][(/\ call.op = "save" /\ call'.op = "get_statuses"
           /\ call'.scope_id = call.scope_id) =>
              (call'.result = call.result /\ files' = files)]_vars

\* C16 witness: a mapping with one record was saved over a file that held
\* two records, one of them under another key with a last_updated, and the
\* load returns the one record.
C16_ShorterMappingSaved ==
    /\ call.op = "save"
    /\ DOMAIN call.result = {"7"}
    /\ DOMAIN Persisted(call.before, call.scope_id) = {"7", "142"}
    /\ "last_updated" \in DOMAIN Persisted(call.before, call.scope_id)["142"]
    /\ Persisted(call.before, call.scope_id)["7"] # call.result["7"]
    /\ get_statuses(files, call.scope_id).statuses = call.result

\* the delivery is between two awaits: it holds its event loop
Running(h) == pc[h] \in {"load", "save", "dump", "getname", "send"}

\* C17 (one process: updates are atomic, none is lost), one worker process
\* and no store I/O failure: a delivery that is between two awaits holds the
\* event loop, so at most one is; the dict a delivery is about to save is the
\* mapping the file held at its load plus its own record, and that mapping
\* is still what the file holds (no other delivery wrote in between); every
\* record ever saved is in the file with its first_seen whenever no save is
\* under way; and when all deliveries have finished, the store of each scope
\* has a record for every id that any of them wrote.
C17_NoLostUpdateInOneProcess ==
    /\ [](/\ \A h \in Deliveries : Running(h) => loop[proc[h]] = h
          /\ \A h, g \in Deliveries : (Running(h) /\ Running(g)) => h = g
          /\ \A h \in Deliveries :
                pc[h] = "save" =>
                    LET store == Persisted(files, scope[h])
                        k == Str(UpdateId(h))
                    IN  /\ DOMAIN statuses[h] = DOMAIN store \cup {k}
                        /\ \A j \in DOMAIN store \ {k} : statuses[h][j] = store[j]
                        /\ statuses[h][k].name = UpdateName(h)
          /\ \A s \in Scopes :
                NoSaveInProgress(s) =>
                    /\ files[get_status_file_path(s)].state \in {"missing", "ok"}
                    /\ \A k \in DOMAIN everStored[get_status_file_path(s)] :
                          /\ k \in DOMAIN Persisted(files, s)
                          /\ Persisted(files, s)[k].first_seen =
                                 everStored[get_status_file_path(s)][k]
          /\ (\A h \in Deliveries : pc[h] = "done") =>
                \A h \in Deliveries :
                    /\ response[h] = "success"
                    /\ KeysCarried(data[h]) \subseteq DOMAIN Persisted(files, scope[h]))
    /\ [][\A h \in Deliveries :
             (pc[h] \in {"save", "dump"} /\ files' # files) => Acts(h)]_vars

\* C17 witness: two deliveries for one scope have finished; one of them sent
\* a message before it wrote, the other wrote another id, and the store has
\* the records of both, the first delivery's record being the newer one.
C17_BothUpdatesKept ==
    \E h, g \in Deliveries :
        /\ h # g /\ scope[h] = scope[g]
        /\ pc[h] = "done" /\ pc[g] = "done"
        /\ Len(sent[h]) >= 1 /\ data[h].lead_statuses # <<>>
        /\ KeysCarried(data[h]) # {} /\ KeysCarried(data[g]) # {}
        /\ KeysCarried(data[h]) \cap KeysCarried(data[g]) = {}
        /\ DOMAIN Persisted(files, scope[h]) = KeysCarried(data[h]) \cup KeysCarried(data[g])
        /\ \A k \in KeysCarried(data[h]) : \A j \in KeysCarried(data[g]) :
              Persisted(files, scope[h])[k].first_seen > Persisted(files, scope[h])[j].first_seen

\* C18 (update after a failed load): when update(S, I, n) finds the file of
\* S corrupt, or its read raises, and its save succeeds, the file afterwards
\* is a JSON document with exactly one record, under I, with name n, a
\* first_seen of this call and no last_updated, whether or not I had a
\* record; all records the file held are gone; the mapping returned is the
\* mapping persisted.
C18_UpdateAfterFailedLoad ==
    LET p == get_status_file_path(call.scope_id)
    IN  (\/ call.op = "update_unreadable"
         \/ call.op = "update" /\ call.before[p].state = "corrupt") =>
            /\ files[p].state = "ok"
            /\ Persisted(files, call.scope_id) = call.result
            /\ DOMAIN call.result = {Str(call.status_id)}
            /\ call.result[Str(call.status_id)] =
                   [name |-> call.name, first_seen |-> clock - 1]

\* C18 witness: the read raised in an update of an id whose record, stored
\* two updates ago, was in the file next to another; the file now holds one
\* record, the id's, with a new first_seen.
C18_EarlierRecordsGone ==
    /\ call.op = "update_unreadable"
    /\ LET before == JsonLoad(call.before[get_status_file_path(call.scope_id)].text)
           k == Str(call.status_id)
       IN  /\ Cardinality(DOMAIN before) = 2
           /\ k \in DOMAIN before
           /\ before[k].first_seen < clock - 1
           /\ DOMAIN Persisted(files, call.scope_id) = {k}
           /\ Persisted(files, call.scope_id)[k].first_seen = clock - 1

\* C19 (redelivery): when the second delivery of a payload, made after the
\* first was answered and with no other delivery around, has been answered,
\* it was answered success, the scope's store has the ids it had after the
\* first delivery, each with the name and the first_seen it had then, and
\* the second delivery has handed a message to the sink for the same records
\* in the same order, with the same emoji, as the first.
C19_RedeliveryIdempotent ==
    (call.op = "redeliver" /\ pc[call.delivery] = "done") =>
        LET g == call.delivery
            h == call.first
            first == Persisted(call.before, call.scope_id)
            second == Persisted(files, call.scope_id)
        IN  /\ response[g] = "success"
            /\ files[get_status_file_path(call.scope_id)].state
                   = call.before[get_status_file_path(call.scope_id)].state
            /\ DOMAIN second = DOMAIN first
            /\ \A k \in DOMAIN first :
                  /\ second[k].name = first[k].name
                  /\ second[k].first_seen = first[k].first_seen
            /\ Emitted(g) = Emitted(h)
            /\ \A n \in DOMAIN sent[g] : sent[g][n].emoji = sent[h][n].emoji
            /\ acked[g] = Len(sent[g])

\* C19 witness: a payload with a lead and a status definition was delivered
\* twice; the record the first delivery created has the same name and
\* first_seen and now a last_updated, and the lead's message went out again.
C19_SecondDeliveryDone ==
    /\ call.op = "redeliver" /\ pc[call.delivery] = "done"
    /\ Len(sent[call.delivery]) >= 1
    /\ \E k \in DOMAIN Persisted(call.before, call.scope_id) :
          /\ "last_updated" \notin DOMAIN Persisted(call.before, call.scope_id)[k]
          /\ "last_updated" \in DOMAIN Persisted(files, call.scope_id)[k]
    /\ sent[call.delivery][1].status # sent[call.first][1].status

\* the leads up to lead i of a payload that write a name for key k
NamedBefore(d, i, k) ==
    {j \in 1..i : /\ Truthy(d.leads[j].status_id) /\ d.leads[j].status_name.has
                  /\ Str(d.leads[j].status_id) = k}

\* the status line of lead i when the payload is processed alone on a store
\* that is empty: the name of the last lead up to i that carries one for the
\* id, else the fallback; the payload's metadata sections play no part
LineWithoutMetadata(d, i) ==
    LET k == Str(d.leads[i].status_id)
    IN  IF NamedBefore(d, i, k) = {} THEN "Status " \o k
        ELSE d.leads[Last(NamedBefore(d, i, k))].status_name.v

\* C20 (a payload's metadata is not visible to its own leads): a delivery
\* looks a lead's status name up only while it is in the leads section, and
\* gets what the store holds at that moment; a file changes for a metadata
\* entry of a delivery only after all messages of that delivery were sent
\* and returned; so a delivery processed alone from empty stores shows, for
\* every lead with a status id, the name its leads carry for the id up to
\* that lead or the fallback, never a name only its metadata define.
C20_MetadataAfterLeads ==
    /\ [](\A h \in Deliveries :
            (pc[h] # "idle" /\ \A g \in Deliveries \ {h} : pc[g] = "idle") =>
                \A n \in DOMAIN sent[h] :
                    (sent[h][n].sec = 1 /\ sent[h][n].has_status) =>
                        sent[h][n].status = LineWithoutMetadata(data[h], sent[h][n].idx))
    /\ [][\A h \in Deliveries :
             /\ (pc[h] = "getname" /\ pc'[h] = "send") =>
                    /\ pos[h][1] = 1
                    /\ message'[h].status =
                           get_status_name(files, scope[h], Rec(h).status_id).name
             /\ (Acts(h) /\ pos[h][1] \in {4, 5} /\ files' # files) =>
                    /\ Emitted(h) = Producing(data[h])
                    /\ acked[h] = Len(sent[h])]_vars

\* C20 witness: a delivery processed alone has sent the message of a lead
\* with status id "143" and no name showing the fallback, and has then
\* stored the name "A" its lead_statuses section gives for 143.
C20_FallbackDespiteOwnDefinition ==
    \E h \in Deliveries :
        /\ \A g \in Deliveries \ {h} : pc[g] = "idle"
        /\ response[h] = "success"
        /\ Len(sent[h]) = 1 /\ sent[h][1].status = "Status 143"
        /\ MetaHits(data[h], "143") # {}
        /\ "143" \in DOMAIN Persisted(files, scope[h])
        /\ Persisted(files, scope[h])["143"].name = "A"

=============================================================================
